---- MODULE Spec2Model ----
(***************************************************************************)
(* Model of server.js: a static web server whose request handler passes   *)
(* each request through a region block, a browser (user-agent) check and   *)
(* a per-IP rate limiter before it serves an HTML route or a static asset. *)
(*                                                                         *)
(* JavaScript runs each callback to completion, so the synchronous part of *)
(* the request handler, each fs.readFile callback and each run of the      *)
(* setInterval sweep is one atomic action.  Strings the code searches      *)
(* (includes, startsWith, split on "/") are tuples of one-character        *)
(* strings; strings the code only copies are TLA+ strings.                 *)
(***************************************************************************)
EXTENDS Integers, Sequences, FiniteSets, TLC

VARIABLES
    blacklist,           \* var blacklist: the parsed blacklist.json, or undefined
    blockedCountryName,  \* var blockedCountryName
    ipRequestMap,        \* const ipRequestMap = new Map()
    now,                 \* Date.now()
    nextSweep,           \* the time at which the setInterval timer is next due
    pending,             \* exchanges waiting for their fs.readFile callback
    current,             \* the exchange the running callback serves; none when the
                         \* event loop is idle
    crashed,             \* an exception left a callback: the process has exited
    windows,             \* history: per ip, when its latest window opened and how
                         \* many requests the limiter has let through in it
    userDataBefore       \* while a handler's turn lasts: the entry isRateLimited
                         \* found for the address (<<>> if none or not called)

vars == <<blacklist, blockedCountryName, ipRequestMap, now, nextSweep,
          pending, current, crashed, windows, userDataBefore>>

----------------------------------------------------------------------------
(* Bounds of the model.  The three timing/limit parameters stand for the   *)
(* program's 15 * 60 * 1000 ms, 100 requests and 60 * 1000 ms; the code    *)
(* only compares against them, so they are scaled down to keep the state   *)
(* space finite and small.                                                 *)

rateLimitWindowMs == 3

rateLimitMaxRequests == 2

sweepIntervalMs == 2

MaxTime == 7

MaxPending == 1

----------------------------------------------------------------------------
(* JavaScript values.                                                      *)

Undefined == <<"undefined">>

\* !!v for a header value: undefined and the empty string are falsy
Truthy(v) == v # Undefined /\ v # <<>>

\* String.prototype.startsWith
startsWith(s, prefix) ==
    /\ Len(prefix) <= Len(s)
    /\ SubSeq(s, 1, Len(prefix)) = prefix

\* String.prototype.includes
includes(s, sub) ==
    \E i \in 0..(Len(s) - Len(sub)) : SubSeq(s, i + 1, i + Len(sub)) = sub

----------------------------------------------------------------------------
(* The rate limiter.                                                       *)

\* Map.prototype.set
MapSet(m, k, v) == [x \in DOMAIN m \cup {k} |-> IF x = k THEN v ELSE m[x]]

\* Map.prototype.delete, for a set of keys
MapDelete(m, ks) == [x \in DOMAIN m \ ks |-> m[x]]

\* isRateLimited with count > rateLimitMaxRequests for count >= ...
isRateLimited_CountGt(m, ipAddress, currentTime) ==
    IF ipAddress \notin DOMAIN m
    THEN [limited |-> FALSE,
          map |-> MapSet(m, ipAddress, [count |-> 1, startTime |-> currentTime])]
    ELSE LET userData == m[ipAddress] IN
         IF currentTime - userData.startTime < rateLimitWindowMs
         THEN IF userData.count > rateLimitMaxRequests
              THEN [limited |-> TRUE, map |-> m]
              ELSE [limited |-> FALSE,
                    map |-> [m EXCEPT ![ipAddress].count = @ + 1]]
         ELSE [limited |-> FALSE,
               map |-> MapSet(m, ipAddress, [count |-> 1, startTime |-> currentTime])]

\* isRateLimited with the window test <= rateLimitWindowMs for < ...
isRateLimited_WindowLe(m, ipAddress, currentTime) ==
    IF ipAddress \notin DOMAIN m
    THEN [limited |-> FALSE,
          map |-> MapSet(m, ipAddress, [count |-> 1, startTime |-> currentTime])]
    ELSE LET userData == m[ipAddress] IN
         IF currentTime - userData.startTime <= rateLimitWindowMs
         THEN IF userData.count >= rateLimitMaxRequests
              THEN [limited |-> TRUE, map |-> m]
              ELSE [limited |-> FALSE,
                    map |-> [m EXCEPT ![ipAddress].count = @ + 1]]
         ELSE [limited |-> FALSE,
               map |-> MapSet(m, ipAddress, [count |-> 1, startTime |-> currentTime])]

\* isRateLimited with a blocked request restarting the client's window
isRateLimited_BlockRestarts(m, ipAddress, currentTime) ==
    IF ipAddress \notin DOMAIN m
    THEN [limited |-> FALSE,
          map |-> MapSet(m, ipAddress, [count |-> 1, startTime |-> currentTime])]
    ELSE LET userData == m[ipAddress] IN
         IF currentTime - userData.startTime < rateLimitWindowMs
         THEN IF userData.count >= rateLimitMaxRequests
              THEN [limited |-> TRUE,
                    map |-> [m EXCEPT ![ipAddress].startTime = currentTime]]
              ELSE [limited |-> FALSE,
                    map |-> [m EXCEPT ![ipAddress].count = @ + 1]]
         ELSE [limited |-> FALSE,
               map |-> MapSet(m, ipAddress, [count |-> 1, startTime |-> currentTime])]

\* isRateLimited with the increment of count lost
isRateLimited_NoIncrement(m, ipAddress, currentTime) ==
    IF ipAddress \notin DOMAIN m
    THEN [limited |-> FALSE,
          map |-> MapSet(m, ipAddress, [count |-> 1, startTime |-> currentTime])]
    ELSE LET userData == m[ipAddress] IN
         IF currentTime - userData.startTime < rateLimitWindowMs
         THEN IF userData.count >= rateLimitMaxRequests
              THEN [limited |-> TRUE, map |-> m]
              ELSE [limited |-> FALSE, map |-> m]
         ELSE [limited |-> FALSE,
               map |-> MapSet(m, ipAddress, [count |-> 1, startTime |-> currentTime])]

\* isRateLimited with a window one tick shorter
isRateLimited_ShortWindow(m, ipAddress, currentTime) ==
    IF ipAddress \notin DOMAIN m
    THEN [limited |-> FALSE,
          map |-> MapSet(m, ipAddress, [count |-> 1, startTime |-> currentTime])]
    ELSE LET userData == m[ipAddress] IN
         IF currentTime - userData.startTime < rateLimitWindowMs - 1
         THEN IF userData.count >= rateLimitMaxRequests
              THEN [limited |-> TRUE, map |-> m]
              ELSE [limited |-> FALSE,
                    map |-> [m EXCEPT ![ipAddress].count = @ + 1]]
         ELSE [limited |-> FALSE,
               map |-> MapSet(m, ipAddress, [count |-> 1, startTime |-> currentTime])]

\* isRateLimited keeping one entry for all addresses
isRateLimited_OneKey(m, ipAddress, currentTime) ==
    IF "10.0.0.1" \notin DOMAIN m
    THEN [limited |-> FALSE,
          map |-> MapSet(m, "10.0.0.1", [count |-> 1, startTime |-> currentTime])]
    ELSE LET userData == m["10.0.0.1"] IN
         IF currentTime - userData.startTime < rateLimitWindowMs
         THEN IF userData.count >= rateLimitMaxRequests
              THEN [limited |-> TRUE, map |-> m]
              ELSE [limited |-> FALSE,
                    map |-> [m EXCEPT !["10.0.0.1"].count = @ + 1]]
         ELSE [limited |-> FALSE,
               map |-> MapSet(m, "10.0.0.1", [count |-> 1, startTime |-> currentTime])]

\* isRateLimited(ipAddress) run on map m at Date.now() = currentTime:
\* the value it returns and the map it leaves
isRateLimited(m, ipAddress, currentTime) ==
    IF ipAddress \notin DOMAIN m
    THEN [limited |-> FALSE,
          map |-> MapSet(m, ipAddress, [count |-> 1, startTime |-> currentTime])]
    ELSE LET userData == m[ipAddress] IN
         IF currentTime - userData.startTime < rateLimitWindowMs
         THEN IF userData.count >= rateLimitMaxRequests
              THEN [limited |-> TRUE, map |-> m]
              ELSE [limited |-> FALSE,
                    map |-> [m EXCEPT ![ipAddress].count = @ + 1]]
         ELSE [limited |-> FALSE,
               map |-> MapSet(m, ipAddress, [count |-> 1, startTime |-> currentTime])]

\* the sweep with >= rateLimitWindowMs for > ...
SweepExpired_Ge(m, t) ==
    {ipAddress \in DOMAIN m : t - m[ipAddress].startTime >= rateLimitWindowMs}

\* the sweep comparing the age with twice the window
SweepExpired_Late(m, t) ==
    {ipAddress \in DOMAIN m : t - m[ipAddress].startTime > 2 * rateLimitWindowMs}

\* the entries one run of the setInterval callback deletes
SweepExpired(m, t) ==
    {ipAddress \in DOMAIN m : t - m[ipAddress].startTime > rateLimitWindowMs}

----------------------------------------------------------------------------
(* The browser whitelist and the referer whitelist.                        *)

knownBrowsers ==
    << <<"C", "h", "r", "o", "m", "e">>,
       <<"F", "i", "r", "e", "f", "o", "x">>,
       <<"S", "a", "f", "a", "r", "i">>,
       <<"E", "d", "g">>,
       <<"O", "p", "e", "r", "a">>,
       <<"S", "a", "m", "s", "u", "n", "g", "B", "r", "o", "w", "s", "e", "r">>,
       <<"C", "r", "i", "O", "S">>,
       <<"F", "x", "i", "O", "S">> >>

isHumanUser(userAgent) ==
    IF ~Truthy(userAgent) THEN FALSE
    ELSE \E i \in 1..Len(knownBrowsers) : includes(userAgent, knownBrowsers[i])

allowedReferers ==
    << <<"h", "t", "t", "p", ":", "/", "/", "l", "o", "c", "a", "l", "h", "o", "s", "t", ":", "3", "0", "0", "0">>,
       <<"h", "t", "t", "p", ":", "/", "/", "1", "2", "7", ".", "0", ".", "0", ".", "1", ":", "3", "0", "0", "0">> >>

\* isHotlinking without the test for an absent referer
isHotlinkingWith_NoGuard(allowed, referer) ==
    ~ \E i \in 1..Len(allowed) : startsWith(referer, allowed[i])

\* isHotlinking(referer) with allowedReferers = allowed
isHotlinkingWith(allowed, referer) ==
    IF ~Truthy(referer) THEN FALSE
    ELSE ~ \E i \in 1..Len(allowed) : startsWith(referer, allowed[i])

isHotlinking(referer) == isHotlinkingWith(allowedReferers, referer)

----------------------------------------------------------------------------
(* The regional blacklist.                                                 *)

\* a blacklist.json: one unblocked and two blocked regions
BlacklistJson ==
    << [regionCode |-> <<"U", "S">>, regionBlocked |-> "N", CountryName |-> "United States"],
       [regionCode |-> <<"K", "P">>, regionBlocked |-> "Y", CountryName |-> "North Korea"],
       [regionCode |-> <<"I", "R">>, regionBlocked |-> "Y", CountryName |-> "Iran"] >>

\* the try/catch around JSON.parse(fs.readFileSync(...)): on failure the
\* variable keeps its initial value, undefined
BlacklistLoaded == [defined |-> TRUE, value |-> BlacklistJson]
BlacklistUndefined == [defined |-> FALSE, value |-> <<>>]

\* isCountryBlocked without the assignment to blockedCountryName
isCountryBlocked_NameNotSet(bl, regionCode, name) ==
    IF ~bl.defined
    THEN [error |-> "TypeError", blocked |-> FALSE, blockedCountryName |-> name]
    ELSE LET matches == SelectSeq(bl.value, LAMBDA region : region.regionCode = regionCode) IN
         IF matches = <<>>
         THEN [error |-> "TypeError", blocked |-> FALSE, blockedCountryName |-> name]
         ELSE [error |-> "none", blocked |-> Head(matches).regionBlocked = "Y",
               blockedCountryName |-> name]

\* isCountryBlocked(regionCode) with blacklist = bl: the exception it throws
\* ("none" if it returns), the value it returns and the value it leaves in
\* blockedCountryName (name is the value before the call)
isCountryBlocked(bl, regionCode, name) ==
    IF ~bl.defined
    THEN [error |-> "TypeError", blocked |-> FALSE, blockedCountryName |-> name]
    ELSE LET matches == SelectSeq(bl.value, LAMBDA region : region.regionCode = regionCode) IN
         IF matches = <<>>      \* Array.prototype.find returned undefined
         THEN [error |-> "TypeError", blocked |-> FALSE, blockedCountryName |-> name]
         ELSE LET regionMatch == Head(matches) IN
              IF regionMatch.regionBlocked = "Y"
              THEN [error |-> "none", blocked |-> TRUE,
                    blockedCountryName |-> regionMatch.CountryName]
              ELSE [error |-> "none", blocked |-> FALSE, blockedCountryName |-> name]

----------------------------------------------------------------------------
(* Paths.                                                                  *)

RECURSIVE splitSlash(_, _, _)
\* s.split("/"), with cur the segment being read and acc the segments read
splitSlash(s, cur, acc) ==
    IF s = <<>> THEN Append(acc, cur)
    ELSE IF Head(s) = "/" THEN splitSlash(Tail(s), <<>>, Append(acc, cur))
    ELSE splitSlash(Tail(s), Append(cur, Head(s)), acc)

RECURSIVE resolveDots(_, _)
\* the segments of an absolute path with "", "." and ".." resolved
resolveDots(segs, acc) ==
    IF segs = <<>> THEN acc
    ELSE LET seg == Head(segs) IN
         IF seg = <<>> \/ seg = <<".">> THEN resolveDots(Tail(segs), acc)
         ELSE IF seg = <<".", ".">>
              THEN resolveDots(Tail(segs),
                               IF acc = <<>> THEN acc ELSE SubSeq(acc, 1, Len(acc) - 1))
              ELSE resolveDots(Tail(segs), Append(acc, seg))

RECURSIVE joinSlash(_)
\* "/" + segs.join("/")
joinSlash(segs) ==
    IF segs = <<>> THEN <<>> ELSE <<"/">> \o Head(segs) \o joinSlash(Tail(segs))

\* the resolved segments of an absolute path
Segments(p) == resolveDots(splitSlash(p, <<>>, <<>>), <<>>)

\* path.normalize of an absolute POSIX path: a trailing slash is kept
normalize(p) ==
    LET segs == Segments(p) IN
    IF segs = <<>> THEN <<"/">>
    ELSE joinSlash(segs) \o (IF p[Len(p)] = "/" THEN <<"/">> ELSE <<>>)

\* path.join(a, b, c) with a absolute
join3(a, b, c) == normalize(a \o <<"/">> \o b \o <<"/">> \o c)

\* path.join(a, b) with a absolute
join2(a, b) == normalize(a \o <<"/">> \o b)

\* path.extname: from the last "." of the last segment, "" if there is none
\* or the segment starts with its only "."
extname(p) ==
    LET segs == Segments(p)
        base == IF segs = <<>> THEN <<>> ELSE segs[Len(segs)]
        dots == {i \in 1..Len(base) : base[i] = "."}
    IN  IF dots = {} THEN <<>>
        ELSE LET d == CHOOSE i \in dots : \A j \in dots : j <= i IN
             IF d = 1 THEN <<>> ELSE SubSeq(base, d, Len(base))

\* __dirname
dirname == <<"/", "a", "p", "p">>

public == <<"p", "u", "b", "l", "i", "c">>

mimeTypes ==
    { << <<".", "h", "t", "m", "l">>, "text/html" >>,
      << <<".", "c", "s", "s">>, "text/css" >>,
      << <<".", "j", "s">>, "application/javascript" >>,
      << <<".", "w", "e", "b", "m">>, "image/webp" >>,
      << <<".", "p", "n", "g">>, "image/png" >>,
      << <<".", "j", "p", "g">>, "image/jpeg" >>,
      << <<".", "j", "p", "e", "g">>, "image/jpeg" >>,
      << <<".", "g", "i", "f">>, "image/gif" >>,
      << <<".", "s", "v", "g">>, "image/svg+xml" >>,
      << <<".", "i", "c", "o">>, "image/x-icon" >> }

\* mimeTypes[ext] || 'application/octet-stream'
contentTypeOf(ext) ==
    IF \E e \in mimeTypes : e[1] = ext
    THEN (CHOOSE e \in mimeTypes : e[1] = ext)[2]
    ELSE "application/octet-stream"

routes ==
    { << <<"/">>, <<"h", "o", "m", "e", ".", "h", "t", "m", "l">> >>,
      << <<"/", "a", "b", "o", "u", "t">>, <<"a", "b", "o", "u", "t", ".", "h", "t", "m", "l">> >>,
      << <<"/", "c", "o", "n", "t", "a", "c", "t">>, <<"c", "o", "n", "t", "a", "c", "t", ".", "h", "t", "m", "l">> >> }

\* routes[url] is truthy
isRoute(url) == \E r \in routes : r[1] = url

\* `${__dirname}/public/${routes[url]}`
routeFilePath(url) ==
    dirname \o <<"/">> \o public \o <<"/">> \o (CHOOSE r \in routes : r[1] = url)[2]

htmlHeaders == {"Cache-Control", "Pragma", "Expires"}

----------------------------------------------------------------------------
(* One request/response exchange: the request, what the handler has done   *)
(* for it so far, and what has been written to res.                        *)

NewExchange(req) ==
    [req |-> req,
     gates |-> <<>>,          \* the predicates called, in order
     limited |-> FALSE,       \* what isRateLimited returned, if called
     branch |-> "none",       \* "route" or "asset" once content is resolved
     filePath |-> <<>>,       \* the path handed to fs.readFile, if any
     contentType |-> "",      \* const contentType of the asset branch
     attempts |-> <<>>,       \* the status of every res.writeHead call
     response |-> <<>>,       \* the response sent (at most one)
     error |-> "none",        \* the exception thrown, if any
     state |-> "running"]     \* running, pending (readFile), done, threw

\* res.writeHead(status, headers); res.end(body).  Once the response has
\* been sent, writeHead throws ERR_HTTP_HEADERS_SENT.
writeHeadEnd(x, status, contentType, headers, body, country) ==
    IF x.attempts # <<>>
    THEN [x EXCEPT !.attempts = Append(@, status),
                   !.error = "ERR_HTTP_HEADERS_SENT",
                   !.state = "threw"]
    ELSE [x EXCEPT !.attempts = <<status>>,
                   !.response = <<[status |-> status, contentType |-> contentType,
                                   headers |-> headers, body |-> body,
                                   country |-> country]>>]

\* a return statement: the handler (or callback) ends unless it has thrown
return(x) == IF x.state = "threw" THEN x ELSE [x EXCEPT !.state = "done"]

\* if (regionCode && isCountryBlocked(regionCode)) { writeHead; end }
\* There is no return: the handler goes on to the next check.
RegionGate(x, bl, name) ==
    IF ~Truthy(x.req.regionCode) THEN [ex |-> x, blockedCountryName |-> name]
    ELSE LET r == isCountryBlocked(bl, x.req.regionCode, name)
             x1 == [x EXCEPT !.gates = Append(@, "region")]
         IN  [ex |-> IF r.error # "none"
                     THEN [x1 EXCEPT !.error = r.error, !.state = "threw"]
                     ELSE IF r.blocked
                          THEN writeHeadEnd(x1, 403, "text/plain", {},
                                            "403 Forbidden - Due to regional policies",
                                            r.blockedCountryName)
                          ELSE x1,
              blockedCountryName |-> r.blockedCountryName]

\* if (!isHumanUser(userAgent)) { writeHead; return end }
HumanGate(x) ==
    IF x.state # "running" THEN x
    ELSE LET x1 == [x EXCEPT !.gates = Append(@, "human")] IN
         IF ~isHumanUser(x.req.userAgent)
         THEN return(writeHeadEnd(x1, 403, "text/plain", {},
                                  "403 Forbidden - Inorganic traffic blocked", ""))
         ELSE x1

\* if (isRateLimited(ipAddress)) { writeHead; return end }
RateGate(x, m, t) ==
    IF x.state # "running" THEN [ex |-> x, map |-> m]
    ELSE LET r == isRateLimited(m, x.req.ipAddress, t)
             x1 == [x EXCEPT !.gates = Append(@, "rate"), !.limited = r.limited]
         IN  [ex |-> IF r.limited
                     THEN return(writeHeadEnd(x1, 429, "text/plain", {},
                                              "429 Too Many Requests", ""))
                     ELSE x1,
              map |-> r.map]

\* the route branch and the asset branch, up to the call of fs.readFile
Resolve(x) ==
    IF x.state # "running" THEN x
    ELSE IF isRoute(x.req.url)
         THEN [x EXCEPT !.branch = "route",
                        !.filePath = routeFilePath(x.req.url),
                        !.state = "pending"]
         ELSE LET safePath == normalize(join3(dirname, public, x.req.url))
                  x1 == [x EXCEPT !.branch = "asset"]
              IN  IF ~startsWith(safePath, join2(dirname, public))
                  THEN return(writeHeadEnd(x1, 403, "text/plain", {}, "Access denied", ""))
                  ELSE [x1 EXCEPT !.filePath = safePath,
                                  !.contentType = contentTypeOf(extname(safePath)),
                                  !.state = "pending"]

\* the synchronous part of the request handler, run to completion
Handler(req, bl, name, m, t) ==
    LET g1 == RegionGate(NewExchange(req), bl, name)
        g2 == HumanGate(g1.ex)
        g3 == RateGate(g2, m, t)
    IN  [ex |-> Resolve(g3.ex), map |-> g3.map,
         blockedCountryName |-> g1.blockedCountryName]

\* the callbacks with the hotlinking test made before the test of err
Callback_HotlinkFirst(x, err) ==
    IF x.branch = "route"
    THEN IF err
         THEN return(writeHeadEnd(x, 500, "text/plain", {}, "Internal Server Error", ""))
         ELSE return(writeHeadEnd(x, 200, "text/html", htmlHeaders, "data", ""))
    ELSE IF isHotlinking(x.req.referer)
         THEN return(writeHeadEnd(x, 403, "text/plain", {},
                                  "403 Forbidden - Hotlinking not allowed", ""))
         ELSE IF err
              THEN return(writeHeadEnd(x, 404, "text/plain", {}, "404 Not Found", ""))
              ELSE return(writeHeadEnd(x, 200, x.contentType, {}, "data", ""))

\* the callbacks with the hotlinking test made for routes too
Callback_RouteHotlink(x, err) ==
    IF err
    THEN return(writeHeadEnd(x, IF x.branch = "route" THEN 500 ELSE 404, "text/plain", {},
                             IF x.branch = "route" THEN "Internal Server Error"
                                                   ELSE "404 Not Found", ""))
    ELSE IF isHotlinking(x.req.referer)
         THEN return(writeHeadEnd(x, 403, "text/plain", {},
                                  "403 Forbidden - Hotlinking not allowed", ""))
         ELSE IF x.branch = "route"
              THEN return(writeHeadEnd(x, 200, "text/html", htmlHeaders, "data", ""))
              ELSE return(writeHeadEnd(x, 200, x.contentType, {}, "data", ""))

\* the callback fs.readFile calls, with err set or with the data
Callback(x, err) ==
    IF x.branch = "route"
    THEN IF err
         THEN return(writeHeadEnd(x, 500, "text/plain", {}, "Internal Server Error", ""))
         ELSE return(writeHeadEnd(x, 200, "text/html", htmlHeaders, "data", ""))
    ELSE IF err
         THEN return(writeHeadEnd(x, 404, "text/plain", {}, "404 Not Found", ""))
         ELSE IF isHotlinking(x.req.referer)
              THEN return(writeHeadEnd(x, 403, "text/plain", {},
                                       "403 Forbidden - Hotlinking not allowed", ""))
              ELSE return(writeHeadEnd(x, 200, x.contentType, {}, "data", ""))

----------------------------------------------------------------------------
(* The requests the clients send.                                          *)

IpAddresses == {"10.0.0.1", "10.0.0.2"}

\* cf-ipcountry: absent, unblocked, blocked, blocked, not in blacklist.json
RegionCodes == {Undefined, <<"U", "S">>, <<"K", "P">>, <<"I", "R">>, <<"Z", "Z">>}

\* user-agent: absent, empty, a bot, a browser
UserAgents == {Undefined, <<>>, <<"c", "u", "r", "l", "/", "8">>, <<"E", "d", "g", "e", " ", "E", "d", "g", "/", "1">>}

\* url: a route, an asset, a path above public/, a path into a sibling of
\* public/ whose name starts with "public"
Urls == {<<"/">>, <<"/", "a", ".", "c", "s", "s">>, <<"/", ".", ".", "/", "s", ".", "j", "s">>, <<"/", ".", ".", "/", "p", "u", "b", "l", "i", "c", "2", "/", "k">>}

\* referer: absent, an allowed origin, another origin
Referers == {Undefined, <<"h", "t", "t", "p", ":", "/", "/", "l", "o", "c", "a", "l", "h", "o", "s", "t", ":", "3", "0", "0", "0", "/", "a">>, <<"h", "t", "t", "p", ":", "/", "/", "e", "v", "i", "l", ".", "i", "o", "/">>}

Browser == <<"E", "d", "g", "e", " ", "E", "d", "g", "/", "1">>

\* The requests of one client that waits for each response before it sends
\* the next: every combination of the header values and urls above.
Requests ==
    [ipAddress : {"10.0.0.1"}, regionCode : RegionCodes, userAgent : UserAgents,
     url : Urls, referer : Referers]

\* The requests of clients that do not wait: from each address a browser's
\* request for a route from no region and from two blocked regions, and a
\* request without a user agent.
ClientRequests ==
    [ipAddress : IpAddresses, regionCode : {Undefined, <<"K", "P">>, <<"I", "R">>},
     userAgent : {Browser}, url : {<<"/">>}, referer : {Undefined}]
    \cup
    [ipAddress : IpAddresses, regionCode : {Undefined},
     userAgent : {Undefined}, url : {<<"/">>}, referer : {Undefined}]

----------------------------------------------------------------------------
(* The limiter's decisions as seen from outside: per ip, the time of the   *)
(* request that opened the latest window and the number of requests the    *)
(* limiter has let through since.                                          *)

Accept(w, ipAddress, t) ==
    IF ipAddress \in DOMAIN w /\ t - w[ipAddress].start < rateLimitWindowMs
    THEN [w EXCEPT ![ipAddress].accepted = @ + 1]
    ELSE MapSet(w, ipAddress, [start |-> t, accepted |-> 1])

\* predicate g was called for exchange x
Called(x, g) == \E i \in 1..Len(x.gates) : x.gates[i] = g

----------------------------------------------------------------------------
(* The state machine.  Node's event loop runs one callback at a time: a    *)
(* request handler, a readFile callback or the sweep.  `current` holds the *)
(* exchange that callback served until the loop is idle again.             *)

NoExchange == NewExchange([ipAddress |-> "", regionCode |-> Undefined,
                           userAgent |-> Undefined, url |-> <<>>,
                           referer |-> Undefined])

idle == current = NoExchange /\ ~crashed

InitWith(bl) ==
    /\ blacklist = bl
    /\ blockedCountryName = "undefined"
    /\ ipRequestMap = <<>>
    /\ now = 0
    /\ nextSweep = sweepIntervalMs
    /\ pending = <<>>
    /\ current = NoExchange
    /\ crashed = FALSE
    /\ windows = <<>>
    /\ userDataBefore = <<>>

\* blacklist.json was read and parsed
Init == InitWith(BlacklistLoaded)

\* a request arrives: the handler runs up to its return, its readFile call
\* or its exception
HandleRequest(req) ==
    /\ idle
    /\ LET h == Handler(req, blacklist, blockedCountryName, ipRequestMap, now) IN
       /\ h.ex.state = "pending" => Len(pending) < MaxPending
       /\ ipRequestMap' = h.map
       /\ blockedCountryName' = h.blockedCountryName
       /\ pending' = IF h.ex.state = "pending" THEN Append(pending, h.ex) ELSE pending
       /\ current' = h.ex
       /\ crashed' = (h.ex.state = "threw")
       /\ windows' = IF Called(h.ex, "rate") /\ ~h.ex.limited
                     THEN Accept(windows, req.ipAddress, now)
                     ELSE windows
       /\ userDataBefore' = IF Called(h.ex, "rate") /\ req.ipAddress \in DOMAIN ipRequestMap
                            THEN <<ipRequestMap[req.ipAddress]>>
                            ELSE <<>>
    /\ UNCHANGED <<blacklist, now, nextSweep>>

\* fs.readFile finishes for the i-th waiting exchange and calls back
ReadFileCallback(i, err) ==
    /\ idle
    /\ i \in 1..Len(pending)
    /\ LET x == Callback(pending[i], err) IN
       /\ current' = x
       /\ crashed' = (x.state = "threw")
    /\ pending' = SubSeq(pending, 1, i - 1) \o SubSeq(pending, i + 1, Len(pending))
    /\ UNCHANGED <<blacklist, blockedCountryName, ipRequestMap, now, nextSweep,
                   windows, userDataBefore>>

\* the callback has returned (an exception ends the process instead)
EndTurn ==
    /\ current # NoExchange
    /\ ~crashed
    /\ current' = NoExchange
    /\ userDataBefore' = <<>>
    /\ UNCHANGED <<blacklist, blockedCountryName, ipRequestMap, now, nextSweep,
                   pending, crashed, windows>>

\* the setInterval callback, every sweepIntervalMs
Sweep ==
    /\ idle
    /\ now = nextSweep
    /\ ipRequestMap' = MapDelete(ipRequestMap, SweepExpired(ipRequestMap, now))
    /\ nextSweep' = now + sweepIntervalMs
    /\ UNCHANGED <<blacklist, blockedCountryName, now, pending, current, crashed,
                   windows, userDataBefore>>

\* time passes, but not past a timer that is due
Tick ==
    /\ idle
    /\ now < nextSweep
    /\ now < MaxTime
    /\ now' = now + 1
    /\ UNCHANGED <<blacklist, blockedCountryName, ipRequestMap, nextSweep,
                   pending, current, crashed, windows, userDataBefore>>

\* the clients do not wait for a response before they send the next request
NextClients ==
    \/ \E req \in ClientRequests : HandleRequest(req)
    \/ \E i \in 1..MaxPending, err \in BOOLEAN : ReadFileCallback(i, err)
    \/ EndTurn
    \/ Sweep
    \/ Tick

\* one client, which waits for each response
Next ==
    \/ \E req \in Requests : pending = <<>> /\ HandleRequest(req)
    \/ \E i \in 1..MaxPending, err \in BOOLEAN : ReadFileCallback(i, err)
    \/ EndTurn
    \/ Sweep
    \/ Tick

Spec == Init /\ [][Next]_vars

SpecClients == Init /\ [][NextClients]_vars

\* blacklist.json could not be read or parsed
SpecLoadFailed == InitWith(BlacklistUndefined) /\ [][Next]_vars

----------------------------------------------------------------------------
(* Properties.                                                             *)

\* this step is the request handler running for the exchange in current'
HandlerStep == current' # NoExchange /\ HandleRequest(current'.req)

Last(seq) == seq[Len(seq)]

\* C1: in every window (from the request that opens it up to
\* rateLimitWindowMs later) the limiter lets through at most
\* rateLimitMaxRequests requests of a client, and every further request of
\* that client that reaches the limiter inside the window is rejected: the
\* handler takes its 429 branch.
C1_AtMostMaxPerWindow ==
    /\ [](\A ip \in DOMAIN windows : windows[ip].accepted <= rateLimitMaxRequests)
    /\ [][(/\ HandlerStep
           /\ Called(current', "rate")
           /\ current'.req.ipAddress \in DOMAIN windows
           /\ now - windows[current'.req.ipAddress].start < rateLimitWindowMs
           /\ windows[current'.req.ipAddress].accepted >= rateLimitMaxRequests)
          => (/\ current'.limited
              /\ Last(current'.attempts) = 429
              /\ windows' = windows)]_vars

\* a request was rejected with 429 in a window in which the limiter had let
\* rateLimitMaxRequests requests through
C1_Witness ==
    /\ current.limited
    /\ current.attempts = <<429>>
    /\ current.req.ipAddress \in DOMAIN windows
    /\ windows[current.req.ipAddress].accepted = rateLimitMaxRequests
    /\ now - windows[current.req.ipAddress].start < rateLimitWindowMs

\* C2 (the claim as stated): res.writeHead/res.end is performed at most once
\* for every request, on every path through the handler.
C2_OneOutcome == Len(current.attempts) <= 1

\* isCountryBlocked returned true for x and its 403 was written
RegionFailed(x) ==
    Called(x, "region") /\ x.response # <<>> /\ x.response[1].country # ""

\* isHumanUser was called for x and returned false
HumanFailed(x) == Called(x, "human") /\ ~isHumanUser(x.req.userAgent)

GateRank(g) == CASE g = "region" -> 1 [] g = "human" -> 2 [] g = "rate" -> 3

\* C3 (the claim as stated): the predicates run in the order region, human
\* user, rate limit, and once one fails no later predicate is called and no
\* content (route or asset) is resolved.
C3_ShortCircuit ==
    /\ \A i, j \in 1..Len(current.gates) :
          i < j => GateRank(current.gates[i]) < GateRank(current.gates[j])
    /\ RegionFailed(current) =>
          /\ ~Called(current, "human") /\ ~Called(current, "rate")
          /\ current.branch = "none" /\ current.filePath = <<>>
    /\ HumanFailed(current) =>
          /\ ~Called(current, "rate")
          /\ current.branch = "none" /\ current.filePath = <<>>
    /\ current.limited => current.branch = "none" /\ current.filePath = <<>>

\* the handler (and the readFile callback, if any) has finished for x
Ended(x) == x.state \in {"done", "threw"}

\* C4 (the claim as stated): a request without a user-agent header, or with
\* an empty one, is answered with a 403, whatever its url, referer and region
\* code and whatever the rate-limit state of its client.
C4_NoAgentRejected ==
    (current # NoExchange /\ ~Truthy(current.req.userAgent) /\ Ended(current))
    => (current.response # <<>> /\ current.response[1].status = 403)

\* the client's window has expired: its entry is at least rateLimitWindowMs
\* old, or the sweep has deleted the entry of a window that old
Expired(ip) ==
    \/ ip \in DOMAIN ipRequestMap
       /\ now - ipRequestMap[ip].startTime >= rateLimitWindowMs
    \/ ip \notin DOMAIN ipRequestMap /\ ip \in DOMAIN windows
       /\ now - windows[ip].start >= rateLimitWindowMs

\* C5: the first request of a client that reaches the limiter after the
\* client's window has expired is accepted and installs a fresh window with
\* count = 1 and startTime = now, whether or not the old window was
\* exhausted and whether or not the sweep has deleted its entry.
C5_FreshWindowAfterExpiry ==
    [][(/\ HandlerStep
        /\ Called(current', "rate")
        /\ Expired(current'.req.ipAddress))
       => (/\ ~current'.limited
           /\ current'.req.ipAddress \in DOMAIN ipRequestMap'
           /\ ipRequestMap'[current'.req.ipAddress] = [count |-> 1, startTime |-> now])]_vars

\* a request found an exhausted window that had expired and was accepted
\* into a fresh one
C5_Witness ==
    /\ current # NoExchange
    /\ Called(current, "rate")
    /\ ~current.limited
    /\ userDataBefore # <<>>
    /\ userDataBefore[1].count = rateLimitMaxRequests
    /\ now - userDataBefore[1].startTime >= rateLimitWindowMs
    /\ ipRequestMap[current.req.ipAddress] = [count |-> 1, startTime |-> now]

RECURSIVE IsPrefixSeq(_, _)
IsPrefixSeq(p, q) ==
    \/ p = <<>>
    \/ q # <<>> /\ Head(p) = Head(q) /\ IsPrefixSeq(Tail(p), Tail(q))

\* the url, joined to the content root and normalized, names a location that
\* is not the content root directory or below it
Escapes(url) ==
    ~IsPrefixSeq(Segments(dirname \o <<"/">> \o public),
                 Segments(dirname \o <<"/">> \o public \o <<"/">> \o url))

\* C6 (the claim as stated): a request whose path resolves outside the
\* content root, a sibling directory whose name begins with the root's name
\* included, causes no file read and is answered 403 'Access denied'.
C6_TraversalDenied ==
    (current.branch = "asset" /\ Escapes(current.req.url))
    => /\ current.filePath = <<>>
       /\ current.state = "done" =>
             /\ current.response[1].status = 403
             /\ current.response[1].body = "Access denied"

\* C7 (the claim as stated): no request, whatever its region code, makes the
\* region lookup raise an error that leaves the handler unhandled and stops
\* the server.
C7_NoUnhandledError == ~(crashed /\ current.error = "TypeError")

\* C8: whenever an entry leaves the map, its age now - startTime exceeds
\* rateLimitWindowMs at that moment: the sweep never deletes a window that
\* is still active.
C8_SweepOnlyExpired ==
    [][\A ip \in DOMAIN ipRequestMap :
          ip \notin DOMAIN ipRequestMap'
          => now - ipRequestMap[ip].startTime > rateLimitWindowMs]_vars

\* a sweep has just deleted one client's expired entry and kept the entry
\* of another client that is exactly rateLimitWindowMs old
C8_Witness ==
    /\ nextSweep = now + sweepIntervalMs
    /\ \E ip \in DOMAIN windows :
          /\ ip \notin DOMAIN ipRequestMap
          /\ now - windows[ip].start > rateLimitWindowMs
    /\ \E ip \in DOMAIN ipRequestMap :
          now - ipRequestMap[ip].startTime = rateLimitWindowMs

\* C9: with the sweep timer firing every sweepIntervalMs, no entry stays in
\* the map longer than one sweep interval after its age has exceeded
\* rateLimitWindowMs.
C9_SweptWithinInterval ==
    \A ip \in DOMAIN ipRequestMap :
        now - ipRequestMap[ip].startTime <= rateLimitWindowMs + sweepIntervalMs

\* an entry was deleted at the latest moment the timer allows
C9_Witness ==
    /\ nextSweep = now + sweepIntervalMs
    /\ \E ip \in DOMAIN windows :
          /\ ip \notin DOMAIN ipRequestMap
          /\ now - windows[ip].start = rateLimitWindowMs + sweepIntervalMs

\* C10 (the claim as stated): every request whose handler, and readFile
\* callback if it has one, has run has had a response written.
C10_EveryRequestAnswered ==
    (current # NoExchange /\ Ended(current)) => current.response # <<>>

\* x went through the three predicates without a failure and waits for the
\* file; nothing has been written for it
PassedGate(x) == x.state = "pending" /\ x.attempts = <<>> /\ ~x.limited

\* the response sent for x
Sent(x, status, body) ==
    /\ x.attempts = <<status>>
    /\ x.response[1].status = status
    /\ x.response[1].body = body

\* the referer is present and starts with none of the allowed origins
ForeignReferer(referer) ==
    /\ Truthy(referer)
    /\ \A i \in 1..Len(allowedReferers) : ~startsWith(referer, allowedReferers[i])

\* C11: for a request that passed the gate for a non-route path inside the
\* content root, with a referer that matches no allowed origin, the response
\* is 403 (hotlinking) if the file is read and 404 if it is not: a missing
\* asset never yields the hotlinking 403.
C11_ExistenceBeforeHotlink ==
    [][\A i \in 1..Len(pending) :
          (/\ PassedGate(pending[i])
           /\ pending[i].branch = "asset"
           /\ ~Escapes(pending[i].req.url)
           /\ ForeignReferer(pending[i].req.referer))
          => /\ ReadFileCallback(i, FALSE)
                => Sent(current', 403, "403 Forbidden - Hotlinking not allowed")
             /\ ReadFileCallback(i, TRUE)
                => Sent(current', 404, "404 Not Found")]_vars

\* an existing asset was refused to a foreign referer
C11_Witness ==
    /\ current.branch = "asset"
    /\ ~Escapes(current.req.url)
    /\ ForeignReferer(current.req.referer)
    /\ Sent(current, 403, "403 Forbidden - Hotlinking not allowed")
    /\ current.state = "done"

\* C12: for a request that passed the gate for a path of the route table,
\* the response is 200 with Content-Type text/html and the three no-cache
\* headers if the file is read, whatever the referer, and 500 if it is not.
C12_RouteServed ==
    [][\A i \in 1..Len(pending) :
          (PassedGate(pending[i]) /\ isRoute(pending[i].req.url))
          => /\ ReadFileCallback(i, FALSE)
                => /\ Sent(current', 200, "data")
                   /\ current'.response[1].contentType = "text/html"
                   /\ current'.response[1].headers = {"Cache-Control", "Pragma", "Expires"}
             /\ ReadFileCallback(i, TRUE)
                => Sent(current', 500, "Internal Server Error")]_vars

\* a route was served with the no-cache headers to a foreign referer
C12_Witness ==
    /\ isRoute(current.req.url)
    /\ ForeignReferer(current.req.referer)
    /\ Sent(current, 200, "data")
    /\ current.response[1].contentType = "text/html"
    /\ current.response[1].headers = {"Cache-Control", "Pragma", "Expires"}

\* whitelists the server could be configured with
Whitelists == {<<>>, <<allowedReferers[1]>>, allowedReferers}

\* C13: for a request that passed the gate for a non-route path inside the
\* content root, without a referer header, the response is 200 when the file
\* is read; the hotlinking test lets an absent referer through whatever the
\* whitelist holds.
C13_NoRefererServed ==
    /\ [](\A allowed \in Whitelists : ~isHotlinkingWith(allowed, Undefined))
    /\ [][\A i \in 1..Len(pending) :
            (/\ PassedGate(pending[i])
             /\ pending[i].branch = "asset"
             /\ ~Escapes(pending[i].req.url)
             /\ pending[i].req.referer = Undefined
             /\ ReadFileCallback(i, FALSE))
            => /\ Sent(current', 200, "data")
               /\ current'.response[1].contentType = "text/css"]_vars

\* an existing asset was served to a request without a referer
C13_Witness ==
    /\ current.branch = "asset"
    /\ ~Escapes(current.req.url)
    /\ current.req.referer = Undefined
    /\ Sent(current, 200, "data")

\* C14: every entry of the map has 1 <= count <= rateLimitMaxRequests.
C14_CountInRange ==
    \A ip \in DOMAIN ipRequestMap :
        /\ 1 <= ipRequestMap[ip].count
        /\ ipRequestMap[ip].count <= rateLimitMaxRequests

\* an entry at the maximum survives a further, rejected, request and another
\* client's entry is at 1
C14_Witness ==
    /\ current.limited
    /\ ipRequestMap[current.req.ipAddress].count = rateLimitMaxRequests
    /\ \E ip \in DOMAIN ipRequestMap : ipRequestMap[ip].count = 1

\* C15 (the claim as stated): a request rejected by the region block or by
\* the human-user check leaves the map as it was.
C15_RejectedLeavesMap ==
    [][(HandlerStep /\ (RegionFailed(current') \/ HumanFailed(current')))
       => ipRequestMap' = ipRequestMap]_vars

\* C16: a request the limiter blocks leaves the map as it was, so blocked
\* requests do not extend the block: a request that reaches the limiter at or
\* after startTime + rateLimitWindowMs of an exhausted window is accepted.
C16_BlockedLeavesEntry ==
    /\ [][(HandlerStep /\ current'.limited) => ipRequestMap' = ipRequestMap]_vars
    /\ [][(/\ HandlerStep
           /\ Called(current', "rate")
           /\ current'.req.ipAddress \in DOMAIN windows
           /\ windows[current'.req.ipAddress].accepted >= rateLimitMaxRequests
           /\ now >= windows[current'.req.ipAddress].start + rateLimitWindowMs)
          => ~current'.limited]_vars

\* a blocked request in the last tick of an exhausted window: the entry is
\* the one the limiter found
C16_Witness ==
    /\ current.limited
    /\ userDataBefore = <<ipRequestMap[current.req.ipAddress]>>
    /\ now = userDataBefore[1].startTime + rateLimitWindowMs - 1

\* C17: with handlers, pending readFile callbacks and sweeps interleaved in
\* every order, the count of each entry is the number of requests of that
\* client the limiter has let through since the entry's startTime.
C17_CountIsAccepted ==
    \A ip \in DOMAIN ipRequestMap :
        /\ ip \in DOMAIN windows
        /\ windows[ip].start = ipRequestMap[ip].startTime
        /\ windows[ip].accepted = ipRequestMap[ip].count

\* both clients have had several requests accepted, one client's entry has
\* been swept, and a readFile callback is still outstanding
C17_Witness ==
    /\ pending # <<>>
    /\ \E ip \in DOMAIN ipRequestMap : ipRequestMap[ip].count = rateLimitMaxRequests
    /\ \E ip \in DOMAIN windows :
          ip \notin DOMAIN ipRequestMap /\ windows[ip].accepted > 1

\* the display name blacklist.json gives a region code
CountryNameOf(regionCode) ==
    BlacklistJson[CHOOSE i \in 1..Len(BlacklistJson) :
                     BlacklistJson[i].regionCode = regionCode].CountryName

\* the region 403 of x names the region of x's own request
NamesOwnRegion(x) ==
    RegionFailed(x) => x.response[1].country = CountryNameOf(x.req.regionCode)

\* C18: the 403 written for a blocked region names the display name of the
\* request's own region code, also while exchanges of requests from other
\* blocked regions are waiting for their files.
C18_OwnRegionNamed ==
    /\ NamesOwnRegion(current)
    /\ \A i \in 1..Len(pending) : NamesOwnRegion(pending[i])

\* a request from one blocked region is answered while the exchange of a
\* request from another blocked region is pending
C18_Witness ==
    /\ RegionFailed(current)
    /\ current.response[1].country = "Iran"
    /\ \E i \in 1..Len(pending) :
          /\ RegionFailed(pending[i])
          /\ pending[i].response[1].country = "North Korea"
          /\ pending[i] # current

\* C19: the startTime recorded for a client never decreases, and a window
\* that replaces an earlier one of the client starts at least
\* rateLimitWindowMs after the earlier one's start.
C19_WindowStartsMonotonic ==
    [][\A ip \in DOMAIN ipRequestMap' :
          ip \in DOMAIN windows
          => \/ ipRequestMap'[ip].startTime = windows[ip].start
             \/ ipRequestMap'[ip].startTime >= windows[ip].start + rateLimitWindowMs]_vars

\* a window replaced at the first tick it can be, by a request that found
\* the old entry still in the map
C19_Witness ==
    /\ current # NoExchange
    /\ userDataBefore # <<>>
    /\ now = userDataBefore[1].startTime + rateLimitWindowMs
    /\ ipRequestMap[current.req.ipAddress].startTime = now
    /\ windows[current.req.ipAddress].start = now

\* C20: a request of one client leaves the entries of the other clients as
\* they were (none created, changed or deleted), and the limiter's decision
\* for a request depends on the entry of the request's own client alone.
C20_ClientsIsolated ==
    [][HandlerStep =>
       LET a == current'.req.ipAddress
           own == [ip \in DOMAIN ipRequestMap \cap {a} |-> ipRequestMap[ip]]
       IN  /\ \A ip \in IpAddresses \ {a} :
                /\ ip \in DOMAIN ipRequestMap' <=> ip \in DOMAIN ipRequestMap
                /\ ip \in DOMAIN ipRequestMap => ipRequestMap'[ip] = ipRequestMap[ip]
           /\ Called(current', "rate")
              => /\ current'.limited = (/\ own # <<>>
                                        /\ now - own[a].startTime < rateLimitWindowMs
                                        /\ own[a].count >= rateLimitMaxRequests)
                 /\ a \in DOMAIN ipRequestMap']_vars

\* one client is rejected while the other client's entry is below the limit
C20_Witness ==
    /\ current.limited
    /\ \E ip \in DOMAIN ipRequestMap :
          /\ ip # current.req.ipAddress
          /\ ipRequestMap[ip].count < rateLimitMaxRequests
          /\ now - ipRequestMap[ip].startTime < rateLimitWindowMs

====
